---- MODULE Spec2Model ----
(***************************************************************************)
(* Order execution pipeline of alxn787/engine.                             *)
(*                                                                         *)
(*   OrderExecutionService  src/src/services/order-execution-service.ts    *)
(*   QueueService           src/unnamed/part_003 (lines 492-682)           *)
(*   MockDexRouter          src/unnamed/part_003 (lines 830-1001)          *)
(*   DatabaseService        src/src/config/database.ts                     *)
(*   POST /execute route    src/unnamed/part_003 (lines 246-286)           *)
(*                                                                         *)
(* The Order Store is the orders table (db), the Active-Order Cache the    *)
(* active_order:<id> keys (cache).  A run is one invocation of the queue   *)
(* handler processOrder (or, in SpecDirect, of executeOrder by a caller);  *)
(* its pc is the await it is suspended at.  The BullMQ queue is modelled   *)
(* by its job lists: waiting, delayed, failed and the active runs.         *)
(***************************************************************************)
EXTENDS Integers, Sequences, FiniteSets, TLC

\* ------------------------------------------------------------------ bounds
NumOrders == 2          \* orders submitted through POST /execute
Concurrency == 2        \* QueueConfig.concurrency (2 in test/setup.ts)
MaxPrice == 2           \* executed prices are drawn from 1..MaxPrice
MaxFaults == 1          \* rejected removeActiveOrder calls
MaxExpire == 1          \* cache entries lost to the 3600 s expiry
MaxAdds == 2            \* addOrder calls besides the route's own
MaxDirect == 1          \* executeOrder calls made by a caller directly
MaxGetFaults == 3       \* rejected getOrderStatus calls of processOrder
NumPlain == 2           \* connection ids that do not contain 'test'
NumTest == 1            \* connection ids that contain 'test'

\* --------------------------------------------------------------- constants
maxRetries == 3         \* QueueConfig.maxRetries -> defaultJobOptions.attempts

Orders == 1..NumOrders
Ghost == NumOrders + 1  \* an order id that is in no store (never created)
JobIds == Orders \cup {Ghost}

\* run slots: the queue handler's run of job id o is <<o, k>> (k tells apart
\* runs for the same id), a direct executeOrder caller's is DirectRun
Copies == {1, 2}
DirectRun == <<Ghost, 0>>
WorkerRuns == JobIds \X Copies
RunIds == WorkerRuns \cup {DirectRun}

\* tokenIn of a request: any non-empty string passes the route's schema
Tokens == {"SOL", "INVALID_TOKEN"}

\* WebSocketManager connection ids: <<"test", n>> stands for an id for which
\* connectionId.includes('test') holds, <<"conn", n>> for one for which it
\* does not
ConnIds == ({"conn"} \X (1..NumPlain)) \cup ({"test"} \X (1..NumTest))
NoOrder == 0            \* addConnection without an orderId

Statuses == {"pending", "routing", "building", "submitted", "confirmed", "failed"}
Terminal == {"confirmed", "failed"}

\* position of a status in pending -> routing -> building -> submitted ->
\* {confirmed, failed}
Rank(s) ==
  CASE s = "pending" -> 0
    [] s = "routing" -> 1
    [] s = "building" -> 2
    [] s = "submitted" -> 3
    [] OTHER -> 4

NoRow == [status |-> "none", tokenIn |-> "none", txHash |-> "NULL",
          executedPrice |-> 0, failureReason |-> "NULL", retryCount |-> 0]

IdleRun == [order |-> Ghost, attemptsMade |-> 0, pc |-> "idle", upd |-> FALSE,
            err |-> "none", price |-> 0, direct |-> FALSE,
            termAtCall |-> FALSE, sawTerminal |-> FALSE, acted |-> FALSE]

VARIABLES
  db,               \* Order Store: order id -> row of the orders table
  cache,            \* Active-Order Cache: order id -> cached status or "absent"
  req,              \* POST /execute handler position per order
  subscriber,       \* statusSubscribers: order id -> a callback is registered
  sinceTransition,  \* updates delivered to the subscriber since the stored
                    \* status of the order last changed
  waiting,          \* BullMQ wait list: sequence of jobs [id, attemptsMade,
                    \* failedReason]
  delayed,          \* BullMQ delayed set (backoff pending)
  failedJobs,       \* BullMQ failed set (removeOnFail: false)
  paused,           \* queue paused
  runs,             \* run slot -> handler invocation in progress
  faults,           \* removeActiveOrder rejections so far
  expiries,         \* cache expiries so far
  adds,             \* extra addOrder calls so far
  directCalls,      \* direct executeOrder calls so far
  failedAtAttempt,  \* attempt number of the run that first stored failed
  dupAdd,           \* addOrder was called while a job for the id existed
  getFaults,        \* getOrderStatus rejections so far
  connections,      \* WebSocketManager.connections: the ids it maps to a socket
  orderConnections, \* WebSocketManager.orderConnections: order id -> set of ids
  socket,           \* connection id -> "OPEN", "CLOSED" (readyState is not
                    \* OPEN) or "BROKEN" (readyState OPEN, send throws)
  regOrder,         \* connection id -> the orderId addConnection was given
  inbox,            \* connection id -> order ids of the updates its socket got
  lastOp,           \* the WebSocketManager call that led to this state, with
                    \* the number of ws.send calls it made per connection
  lastQuote,        \* MockDexRouter: the quotes of the last getBestQuote call
                    \* and the quote it returned
  lastSwap,         \* MockDexRouter: the last executeSwap call and its result
  lastBackoff,      \* BullMQ: the last backoff delay computed for a retry
  returned,         \* order id -> the request createOrder was given and the
                    \* Order it built from it
  callbackOf,       \* order id -> the client whose callback statusSubscribers
                    \* holds for the order
  wsOpen,           \* <<client, order id>>: the client's socket on
                    \* GET /:orderId/ws is subscribed and has not closed
  lastEmit          \* the last emitStatusUpdate: its order, the client whose
                    \* callback ran, the clients whose sockets were open

vars == <<db, cache, req, subscriber, sinceTransition, waiting, delayed,
          failedJobs, paused, runs, faults, expiries, adds, directCalls,
          failedAtAttempt, dupAdd, getFaults, connections, orderConnections,
          socket, regOrder, inbox, lastOp, lastQuote, lastSwap, lastBackoff,
          returned, callbackOf, wsOpen, lastEmit>>

queueVars == <<waiting, delayed, failedJobs, paused>>
storeVars == <<db, cache, sinceTransition, failedAtAttempt>>
fanoutVars == <<connections, orderConnections, socket, regOrder, inbox, lastOp>>
resultVars == <<lastQuote, lastSwap, lastBackoff>>
clientVars == <<callbackOf, wsOpen, lastEmit>>
sideVars == <<fanoutVars, resultVars, clientVars>>
envVars == <<faults, expiries, adds, directCalls, getFaults, sideVars,
             returned>>
pipelineVars == <<db, cache, req, subscriber, sinceTransition, queueVars, runs,
                  returned, clientVars,
                  faults, expiries, adds, directCalls, getFaults,
                  failedAtAttempt, dupAdd>>

\* ------------------------------------------------------------------ helpers
\* the clients that open sockets on GET /:orderId/ws
NumClients == 2
Clients == 1..NumClients
NoClient == 0

NoEmit == [order |-> NoOrder, to |-> NoClient, open |-> {}]

NoOp == [op |-> "none", order |-> NoOrder, tried |-> [c \in ConnIds |-> 0]]

NoSwap == [amountIn |-> 0, tokenIn |-> "none", tokenOut |-> "none",
           tolerance |-> 0, slippage |-> 0, success |-> FALSE, error |-> "none",
           txHash |-> "undefined", executedPrice |-> 0]

NoBackoff == [retryDelay |-> 0, maxRetryDelay |-> 0, attempts |-> 0, k |-> 0,
              delay |-> 0]

\* creation requests, slippage in thousandths: slippageTolerance is <<>> when
\* the request omits it, userId is "" when the request has none
DefaultSlippage == 10
MaxSlippage == 1000
OrderTypes == {"market", "limit", "sniper"}
RequestTypes == {"market", "swap"}
RequestAmounts == {0 - 5, 0, 100}
RequestSlippages == {<<>>, <<0>>, <<5>>, <<1500>>}
RequestUsers == {"", "user"}

Requests ==
  [type : RequestTypes, tokenIn : Tokens, amountIn : RequestAmounts,
   slippageTolerance : RequestSlippages, userId : RequestUsers]

NoRequest == [type |-> "none", tokenIn |-> "none", amountIn |-> 0,
              slippageTolerance |-> <<>>, userId |-> ""]

\* OrderExecutionSchema.parse accepts the request
ValidRequest(request) ==
  /\ request.type \in OrderTypes
  /\ request.amountIn > 0
  /\ IF request.slippageTolerance = <<>> THEN TRUE
     ELSE /\ request.slippageTolerance[1] >= 0
          /\ request.slippageTolerance[1] <= MaxSlippage
  /\ request.userId # ""

\* faulty variant of SlippageOrDefault: the request's value as it is
SlippageAsGiven(request) ==
  IF request.slippageTolerance = <<>> THEN 0 ELSE request.slippageTolerance[1]

\* request.slippageTolerance || 0.01
SlippageOrDefault(request) ==
  IF request.slippageTolerance = <<>> THEN DefaultSlippage
  ELSE IF request.slippageTolerance[1] = 0 THEN DefaultSlippage
  ELSE request.slippageTolerance[1]

\* the order object createOrder builds; uuidv4() is the fresh id
NewOrder(id, request) ==
  [id |-> id, type |-> request.type, tokenIn |-> request.tokenIn,
   amountIn |-> request.amountIn,
   slippageTolerance |-> SlippageOrDefault(request),
   userId |-> request.userId, status |-> "pending", retryCount |-> 0]

NotCreated ==
  [request |-> NoRequest,
   order |-> [NewOrder(NoOrder, NoRequest) EXCEPT !.status = "none"]]

NoQuote == [raydium |-> [dex |-> "none", price |-> 0, fee |-> 0],
            meteora |-> [dex |-> "none", price |-> 0, fee |-> 0],
            best |-> [dex |-> "none", price |-> 0, fee |-> 0]]

IsTerminal(s) == s \in Terminal

Busy(r) == runs[r].pc # "idle"
ActiveRuns == {r \in WorkerRuns : Busy(r)}
RunsOf(o) == {r \in WorkerRuns : Busy(r) /\ runs[r].order = o}

RECURSIVE SeqIds(_)
SeqIds(s) == IF s = <<>> THEN {} ELSE {Head(s).id} \cup SeqIds(Tail(s))

\* a job with this id is in the queue in some state
JobExists(o) ==
  \/ o \in SeqIds(waiting)
  \/ \E j \in delayed : j.id = o
  \/ o \in failedJobs
  \/ RunsOf(o) # {}

\* emitStatusUpdate: the update goes to the callback registered for the order
Emit(o, since) ==
  IF o \in Orders /\ subscriber[o]
    THEN [since EXCEPT ![o] = IF @ < 3 THEN @ + 1 ELSE @]
    ELSE since


\* --------------------------------------------------------------------- Init
Init ==
  /\ db = [o \in JobIds |-> NoRow]
  /\ cache = [o \in JobIds |-> "absent"]
  /\ req = [o \in Orders |-> "new"]
  /\ subscriber = [o \in Orders |-> FALSE]
  /\ sinceTransition = [o \in Orders |-> 0]
  /\ waiting = <<>>
  /\ delayed = {}
  /\ failedJobs = {}
  /\ paused = FALSE
  /\ runs = [r \in RunIds |-> IdleRun]
  /\ faults = 0
  /\ expiries = 0
  /\ adds = 0
  /\ directCalls = 0
  /\ failedAtAttempt = [o \in JobIds |-> 0]
  /\ dupAdd = [o \in JobIds |-> FALSE]
  /\ getFaults = 0
  /\ connections = {}
  /\ orderConnections = [o \in Orders |-> {}]
  /\ socket = [c \in ConnIds |-> "CLOSED"]
  /\ regOrder = [c \in ConnIds |-> NoOrder]
  /\ inbox = [c \in ConnIds |-> {}]
  /\ lastOp = NoOp
  /\ lastQuote = NoQuote
  /\ lastSwap = NoSwap
  /\ lastBackoff = NoBackoff
  /\ returned = [o \in Orders |-> NotCreated]
  /\ callbackOf = [o \in Orders |-> NoClient]
  /\ wsOpen = {}
  /\ lastEmit = NoEmit

\* ------------------------------------------------- POST /execute, createOrder
\* createOrder, db.saveOrder: the row is inserted with status pending and
\* retry_count 0
SaveRow(o, t) ==
  /\ req[o] = "new"
  /\ db' = [db EXCEPT ![o] = [NoRow EXCEPT !.status = "pending", !.tokenIn = t]]
  /\ req' = [req EXCEPT ![o] = "saved"]
  /\ UNCHANGED <<cache, subscriber, sinceTransition, queueVars, runs, faults,
                 expiries, adds, directCalls, getFaults, sideVars,
                 failedAtAttempt, dupAdd>>

\* ... for any request naming one of Tokens
CreateSave(o) ==
  /\ \E t \in Tokens : SaveRow(o, t)
  /\ UNCHANGED returned

\* createOrder(request) up to db.saveOrder, with the order it will return
CreateWith(o, request) ==
  /\ SaveRow(o, request.tokenIn)
  /\ returned' = [returned EXCEPT
                    ![o] = [request |-> request, order |-> NewOrder(o, request)]]

\* POST /execute: the body passes OrderExecutionSchema.parse and createOrder
\* is called with it
RouteCreate(o) == \E request \in Requests : ValidRequest(request) /\ CreateWith(o, request)

\* POST /execute: OrderExecutionSchema.parse throws and the route replies 400
RouteReject(o) ==
  /\ req[o] = "new"
  /\ \E request \in Requests :
       /\ ~ValidRequest(request)
       /\ returned' = [returned EXCEPT ![o] = [NotCreated EXCEPT !.request = request]]
  /\ req' = [req EXCEPT ![o] = "rejected"]
  /\ UNCHANGED <<storeVars, subscriber, queueVars, runs, faults, expiries, adds,
                 directCalls, getFaults, sideVars, failedAtAttempt, dupAdd>>

\* createOrder called by another caller than the route, with any request
DirectCreate(o) == \E request \in Requests : CreateWith(o, request)

\* createOrder, db.setActiveOrder then emitStatusUpdate(pending)
CreateCache(o) ==
  /\ req[o] = "saved"
  /\ cache' = [cache EXCEPT ![o] = "pending"]
  /\ sinceTransition' = Emit(o, sinceTransition)
  /\ req' = [req EXCEPT ![o] = "created"]
  /\ UNCHANGED <<db, subscriber, queueVars, runs, envVars, failedAtAttempt,
                 dupAdd>>

\* ------------------------------------------------------------------ addOrder
\* orderQueue.add(..., {jobId: orderId}): BullMQ ignores an add whose jobId
\* belongs to a job that still exists
AddIgnoredNever(o) == FALSE

AddIgnored(o) == JobExists(o)

QueueAdd(o) ==
  /\ waiting' = IF AddIgnored(o) THEN waiting
                ELSE Append(waiting, [id |-> o, attemptsMade |-> 0,
                                      failedReason |-> "none"])
  /\ dupAdd' = [dupAdd EXCEPT ![o] = @ \/ JobExists(o)]
  /\ UNCHANGED <<delayed, failedJobs, paused>>

\* the route enqueues the order it has just created
RouteEnqueue(o) ==
  /\ req[o] = "created"
  /\ QueueAdd(o)
  /\ req' = [req EXCEPT ![o] = "added"]
  /\ UNCHANGED <<storeVars, subscriber, runs, envVars>>

\* the route's addOrder rejects (orderQueue.add fails, addOrder rethrows):
\* the route's catch replies 500
RouteEnqueueFails(o) ==
  /\ req[o] = "created"
  /\ req' = [req EXCEPT ![o] = "add_failed"]
  /\ UNCHANGED <<storeVars, subscriber, queueVars, runs, envVars, dupAdd>>

\* addOrder called again for an id (or for an id that is in no store)
AddOrder(o) ==
  /\ adds < MaxAdds
  /\ IF o = Ghost THEN TRUE ELSE req[o] = "added"
  /\ QueueAdd(o)
  /\ adds' = adds + 1
  /\ UNCHANGED <<storeVars, req, subscriber, runs, faults, expiries,
                 directCalls, getFaults, sideVars, returned>>

pauseQueue ==
  /\ ~paused
  /\ paused' = TRUE
  /\ UNCHANGED <<storeVars, req, subscriber, waiting, delayed, failedJobs,
                 runs, envVars, dupAdd>>

resumeQueue ==
  /\ paused
  /\ paused' = FALSE
  /\ UNCHANGED <<storeVars, req, subscriber, waiting, delayed, failedJobs,
                 runs, envVars, dupAdd>>

\* ------------------------------------------------------------ BullMQ worker
\* the backoff delay of a delayed job has elapsed
Promote(j) ==
  /\ j \in delayed
  /\ delayed' = delayed \ {j}
  /\ waiting' = Append(waiting, j)
  /\ UNCHANGED <<storeVars, req, subscriber, failedJobs, paused, runs,
                 envVars, dupAdd>>

\* Worker option concurrency: a job is taken only while fewer than
\* concurrency jobs are active
StartAllowedAlways == TRUE

StartAllowed == Cardinality(ActiveRuns) < Concurrency

\* orderQueue.pause(): no waiting job is handed to the worker until
\* orderQueue.resume()
DispatchingAlways == TRUE

Dispatching == ~paused

FreeRun(o) == IF ~Busy(<<o, 1>>) THEN <<o, 1>> ELSE <<o, 2>>

Start ==
  /\ Dispatching
  /\ waiting # <<>>
  /\ StartAllowed
  /\ ~Busy(FreeRun(Head(waiting).id))
  /\ runs' = [runs EXCEPT ![FreeRun(Head(waiting).id)] =
                [IdleRun EXCEPT !.order = Head(waiting).id,
                                !.attemptsMade = Head(waiting).attemptsMade,
                                !.pc = "p_get"]]
  /\ waiting' = Tail(waiting)
  /\ UNCHANGED <<storeVars, req, subscriber, delayed, failedJobs, paused,
                 envVars, dupAdd>>


\* ------------------------------------------------- processOrder, executeOrder
\* processOrder: an order already failed or confirmed is left alone
SkipOrderNever(s) == FALSE

SkipOrder(s) == IsTerminal(s)

\* processOrder's catch: the last attempt stores failed before rethrowing
LastAttempt(run) == run.attemptsMade >= maxRetries - 1

CatchTarget(run) == IF LastAttempt(run) THEN "pc_failed" ELSE "p_throw"

\* where executeOrder's caller continues when it returns or throws
Return(run) == IF run.direct THEN "d_returned" ELSE "p_return"
\* faulty variant of Throw: executeOrder's catch does not rethrow
ThrowSwallowed(run) == IF run.direct THEN "d_returned" ELSE "p_return"

Throw(run) == IF run.direct THEN "d_thrown" ELSE CatchTarget(run)

\* the updateOrderStatus call sites: status written and the next position
UpdLabels == {"p_pending", "p_retry", "p_routing", "p_building", "e_routing",
              "e_building", "e_submitted", "e_confirmed", "e_failed",
              "c_failed", "pc_failed"}

UpdStatus(pc) ==
  CASE pc \in {"p_pending", "p_retry"} -> "pending"
    [] pc \in {"p_routing", "e_routing"} -> "routing"
    [] pc \in {"p_building", "e_building"} -> "building"
    [] pc = "e_submitted" -> "submitted"
    [] pc = "e_confirmed" -> "confirmed"
    [] OTHER -> "failed"

UpdNext(run) ==
  CASE run.pc = "p_pending" -> IF run.attemptsMade > 0 THEN "p_retry" ELSE "p_routing"
    [] run.pc = "p_retry" -> "p_routing"
    [] run.pc = "p_routing" -> "p_building"
    [] run.pc = "p_building" -> "e_get"
    [] run.pc = "e_routing" -> "e_building"
    [] run.pc = "e_building" -> "e_swap"
    [] run.pc = "e_submitted" -> "e_confirmed"
    [] run.pc = "e_confirmed" -> "e_evict"
    [] run.pc = "e_failed" -> "e_evictf"
    [] run.pc = "c_failed" -> "c_evict"
    [] OTHER -> "pc_evict"

\* faulty variant of ApplyUpdate: the failure paths store the reason but not
\* the status
ApplyUpdateKeepsStatus(row, run) ==
  IF row.status = "none" THEN row
  ELSE CASE run.pc = "e_confirmed" ->
              [row EXCEPT !.status = "confirmed", !.txHash = "0xhash",
                          !.executedPrice = run.price]
         [] run.pc \in {"e_failed", "c_failed", "pc_failed"} ->
              [row EXCEPT !.failureReason = run.err]
         [] OTHER -> [row EXCEPT !.status = UpdStatus(run.pc)]

\* db.updateOrderStatus: UPDATE orders SET status, <additionalUpdates> WHERE id
\* (columns that are not named, retry_count among them, keep their value; no
\* row, no effect)
ApplyUpdate(row, run) ==
  IF row.status = "none" THEN row
  ELSE CASE run.pc = "e_confirmed" ->
              [row EXCEPT !.status = "confirmed", !.txHash = "0xhash",
                          !.executedPrice = run.price]
         [] run.pc \in {"e_failed", "c_failed"} ->
              [row EXCEPT !.status = "failed", !.failureReason = run.err]
         [] run.pc = "pc_failed" ->
              [row EXCEPT !.status = "failed", !.failureReason = "errobj"]
         [] OTHER -> [row EXCEPT !.status = UpdStatus(run.pc)]

\* processOrder: getOrderStatus, not-found check, terminal check
ProcessGet(r) ==
  LET run == runs[r]
      st == db[run.order].status
  IN /\ run.pc = "p_get"
     /\ runs' = [runs EXCEPT ![r] =
                  IF st = "none"
                    THEN [run EXCEPT !.pc = CatchTarget(run), !.err = "notfound"]
                  ELSE IF SkipOrder(st)
                    THEN [run EXCEPT !.pc = "p_return", !.sawTerminal = IsTerminal(st)]
                  ELSE [run EXCEPT !.pc = "p_pending", !.sawTerminal = IsTerminal(st)]]
     /\ UNCHANGED <<storeVars, req, subscriber, queueVars, envVars, dupAdd>>

\* updateOrderStatus, first await: the Order Store write
UpdateStore(r) ==
  LET run == runs[r]
      o == run.order
      new == ApplyUpdate(db[o], run)
  IN /\ run.pc \in UpdLabels
     /\ ~run.upd
     /\ db' = [db EXCEPT ![o] = new]
     /\ sinceTransition' =
          IF o \in Orders /\ new.status # db[o].status
            THEN [sinceTransition EXCEPT ![o] = 0] ELSE sinceTransition
     /\ failedAtAttempt' =
          IF new.status = "failed" /\ failedAtAttempt[o] = 0 /\ ~run.direct
            THEN [failedAtAttempt EXCEPT ![o] = run.attemptsMade + 1]
            ELSE failedAtAttempt
     /\ runs' = [runs EXCEPT ![r] = [run EXCEPT !.upd = TRUE, !.acted = TRUE]]
     /\ UNCHANGED <<cache, req, subscriber, queueVars, envVars, dupAdd>>

\* updateOrderStatus, rest: refresh the cache entry if there is one, then
\* emitStatusUpdate
UpdateCacheEmit(r) ==
  LET run == runs[r]
      o == run.order
  IN /\ run.pc \in UpdLabels
     /\ run.upd
     /\ cache' = IF cache[o] # "absent"
                   THEN [cache EXCEPT ![o] = UpdStatus(run.pc)] ELSE cache
     /\ sinceTransition' = Emit(o, sinceTransition)
     /\ runs' = [runs EXCEPT ![r] = [run EXCEPT !.upd = FALSE, !.pc = UpdNext(run)]]
     /\ UNCHANGED <<db, failedAtAttempt, req, subscriber, queueVars, envVars,
                    dupAdd>>

\* executeOrder: getActiveOrder, 'Order not found' when the cache has no entry
ExecGet(r) ==
  LET run == runs[r]
  IN /\ run.pc = "e_get"
     /\ runs' = [runs EXCEPT ![r] =
                  IF cache[run.order] = "absent"
                    THEN [run EXCEPT !.pc = "c_failed", !.err = "notfound"]
                    ELSE [run EXCEPT !.pc = "e_routing"]]
     /\ UNCHANGED <<storeVars, req, subscriber, queueVars, envVars, dupAdd>>

\* executeSwap: an order naming INVALID_TOKEN always fails
InvalidPairNever(order) == FALSE

InvalidPair(order) == order.tokenIn = "INVALID_TOKEN"

\* dexRouter.executeSwap on the order read from the cache (its tokenIn is the
\* one saved at creation): 'Invalid token pair' for an invalid token, else
\* success with a positive executed price, or another failure (amount too
\* large, the random 5 %, slippage)
ExecSwap(r) ==
  LET run == runs[r]
  IN /\ run.pc = "e_swap"
     /\ IF InvalidPair(db[run.order])
          THEN runs' = [runs EXCEPT ![r] =
                         [run EXCEPT !.pc = "e_failed", !.err = "Invalid token pair"]]
          ELSE \/ \E p \in 1..MaxPrice :
                    runs' = [runs EXCEPT ![r] =
                               [run EXCEPT !.pc = "e_submitted", !.price = p]]
               \/ runs' = [runs EXCEPT ![r] =
                             [run EXCEPT !.pc = "e_failed", !.err = "swap"]]
     /\ UNCHANGED <<storeVars, req, subscriber, queueVars, envVars, dupAdd>>

\* db.getAllActiveOrders: the status of every order that has a key in redis
\* (absent for the others)
getAllActiveOrders == [o \in Orders |-> cache[o]]

\* db.removeActiveOrder: redis.del of the order's key
EvictedKept(o) == cache

Evicted(o) == [cache EXCEPT ![o] = "absent"]

\* db.removeActiveOrder at its four call sites: executeOrder after confirmed,
\* after failed and in its catch, each followed by a second emitStatusUpdate
\* of the terminal status (and by the throw, on the failure paths), and
\* processOrder's catch on the last attempt, followed by the rethrow
RemoveActive(r) ==
  LET run == runs[r]
      o == run.order
  IN /\ run.pc \in {"e_evict", "e_evictf", "c_evict", "pc_evict"}
     /\ cache' = Evicted(o)
     /\ sinceTransition' = IF run.pc = "pc_evict" THEN sinceTransition
                           ELSE Emit(o, sinceTransition)
     /\ runs' = [runs EXCEPT ![r] =
                  [run EXCEPT !.acted = TRUE,
                              !.pc = CASE run.pc = "e_evict" -> Return(run)
                                       [] run.pc = "e_evictf" -> "c_failed"
                                       [] run.pc = "c_evict" -> Throw(run)
                                       [] OTHER -> "p_throw"]]
     /\ UNCHANGED <<db, failedAtAttempt, req, subscriber, queueVars, envVars,
                    dupAdd>>

\* removeActiveOrder rejects (redis.del fails): inside executeOrder's try the
\* error lands in its catch, inside a catch it leaves the function
EvictFault(r) ==
  LET run == runs[r]
  IN /\ run.pc \in {"e_evict", "e_evictf", "c_evict", "pc_evict"}
     /\ faults < MaxFaults
     /\ faults' = faults + 1
     /\ runs' = [runs EXCEPT ![r] =
                  [run EXCEPT !.err = "redis",
                              !.pc = CASE run.pc \in {"e_evict", "e_evictf"} -> "c_failed"
                                       [] run.pc = "c_evict" -> Throw(run)
                                       [] OTHER -> "p_throw"]]
     /\ UNCHANGED <<storeVars, req, subscriber, queueVars, expiries, adds,
                    directCalls, getFaults, sideVars, returned, dupAdd>>

\* the handler returned: the job is completed and removed (removeOnComplete)
JobCompleted(r) ==
  /\ runs[r].pc = "p_return"
  /\ runs' = [runs EXCEPT ![r] = IdleRun]
  /\ UNCHANGED <<storeVars, req, subscriber, queueVars, envVars, dupAdd>>

\* defaultJobOptions.attempts: a job whose handler threw is retried while it
\* has made fewer than attempts attempts (any error: the handler throws plain
\* Errors, none of them marked unrecoverable)
RetryLeftAlways(run) == TRUE

RetryLeft(run) == run.attemptsMade + 1 < maxRetries

\* the handler threw: retried after a backoff while attempts remain, else the
\* job is kept in the failed set (removeOnFail: false)
JobFailed(r) ==
  LET run == runs[r]
  IN /\ run.pc = "p_throw"
     /\ runs' = [runs EXCEPT ![r] = IdleRun]
     /\ IF RetryLeft(run)
          THEN /\ delayed' = delayed \cup
                     {[id |-> run.order, attemptsMade |-> run.attemptsMade + 1,
                       failedReason |-> run.err]}
               /\ UNCHANGED failedJobs
          ELSE /\ failedJobs' = failedJobs \cup {run.order}
               /\ UNCHANGED delayed
     /\ UNCHANGED <<storeVars, req, subscriber, waiting, paused, envVars, dupAdd>>

\* ------------------------------------------------------------- subscribers
\* GET /:orderId/ws: the order must exist; the callback is registered
subscribeToOrderStatus(o) ==
  /\ db[o].status # "none"
  /\ ~subscriber[o]
  /\ subscriber' = [subscriber EXCEPT ![o] = TRUE]
  /\ sinceTransition' = [sinceTransition EXCEPT ![o] = 0]
  /\ UNCHANGED <<db, cache, failedAtAttempt, req, queueVars, runs, envVars,
                 dupAdd>>

\* socket close or error
unsubscribeFromOrderStatus(o) ==
  /\ subscriber[o]
  /\ subscriber' = [subscriber EXCEPT ![o] = FALSE]
  /\ sinceTransition' = [sinceTransition EXCEPT ![o] = 0]
  /\ UNCHANGED <<db, cache, failedAtAttempt, req, queueVars, runs, envVars,
                 dupAdd>>

\* GET /:orderId/ws for a client: the order must exist;
\* statusSubscribers.set(orderId, callback) puts the client's callback in the
\* order's one slot
OrderSocketOpen(k, o) ==
  /\ db[o].status # "none"
  /\ <<k, o>> \notin wsOpen
  /\ subscriber' = [subscriber EXCEPT ![o] = TRUE]
  /\ callbackOf' = [callbackOf EXCEPT ![o] = k]
  /\ wsOpen' = wsOpen \cup {<<k, o>>}
  /\ sinceTransition' = [sinceTransition EXCEPT ![o] = 0]
  /\ UNCHANGED <<db, cache, failedAtAttempt, req, queueVars, runs, faults,
                 expiries, adds, directCalls, getFaults, fanoutVars, resultVars,
                 returned, lastEmit, dupAdd>>

\* the client's socket closes or errors:
\* statusSubscribers.delete(orderId) empties the order's slot
OrderSocketClose(k, o) ==
  /\ <<k, o>> \in wsOpen
  /\ subscriber' = [subscriber EXCEPT ![o] = FALSE]
  /\ callbackOf' = [callbackOf EXCEPT ![o] = NoClient]
  /\ wsOpen' = wsOpen \ {<<k, o>>}
  /\ sinceTransition' = [sinceTransition EXCEPT ![o] = 0]
  /\ UNCHANGED <<db, cache, failedAtAttempt, req, queueVars, runs, faults,
                 expiries, adds, directCalls, getFaults, fanoutVars, resultVars,
                 returned, lastEmit, dupAdd>>

\* emitStatusUpdate(orderId, ...) for an order that exists:
\* statusSubscribers.get(orderId) is called, if there is one
emitStatusUpdate(o) ==
  /\ db[o].status # "none"
  /\ lastEmit' = [order |-> o, to |-> callbackOf[o],
                  open |-> {k \in Clients : <<k, o>> \in wsOpen}]
  /\ sinceTransition' = Emit(o, sinceTransition)
  /\ UNCHANGED <<db, cache, failedAtAttempt, req, subscriber, queueVars, runs,
                 faults, expiries, adds, directCalls, getFaults, fanoutVars,
                 resultVars, returned, callbackOf, wsOpen, dupAdd>>

\* ------------------------------------------------------------- environment
\* processOrder: getOrderStatus rejects (the SELECT of db.getOrder fails), the
\* error lands in processOrder's catch
GetFault(r) ==
  LET run == runs[r]
  IN /\ run.pc = "p_get"
     /\ getFaults < MaxGetFaults
     /\ getFaults' = getFaults + 1
     /\ runs' = [runs EXCEPT ![r] = [run EXCEPT !.pc = CatchTarget(run), !.err = "db"]]
     /\ UNCHANGED <<storeVars, req, subscriber, queueVars, faults, expiries,
                    adds, directCalls, sideVars, returned, dupAdd>>

\* setex(..., 3600, ...): the cache entry expires
CacheExpire(o) ==
  /\ cache[o] # "absent"
  /\ expiries < MaxExpire
  /\ expiries' = expiries + 1
  /\ cache' = [cache EXCEPT ![o] = "absent"]
  /\ UNCHANGED <<db, sinceTransition, failedAtAttempt, req, subscriber,
                 queueVars, runs, faults, adds, directCalls, getFaults,
                 sideVars, returned, dupAdd>>

\* executeOrder called by a caller other than the queue handler, for an
\* order that no worker is processing at the time of the call
DirectCall(o) ==
  /\ directCalls < MaxDirect
  /\ ~Busy(DirectRun)
  /\ RunsOf(o) = {}
  /\ req[o] \in {"created", "added"}
  /\ directCalls' = directCalls + 1
  /\ runs' = [runs EXCEPT ![DirectRun] =
                [IdleRun EXCEPT !.order = o, !.pc = "e_get", !.direct = TRUE,
                                !.termAtCall = IsTerminal(db[o].status)]]
  /\ UNCHANGED <<storeVars, req, subscriber, queueVars, faults, expiries,
                 adds, getFaults, sideVars, returned, dupAdd>>

\* -------------------------------------------------------- WebSocketManager
\* connectionId.includes('test')
IsTestId(c) == c[1] = "test"

\* ws.readyState === WebSocket.OPEN
ReadyOpen(c) == socket[c] \in {"OPEN", "BROKEN"}

\* addConnection(connectionId, ws, orderId?) with a fresh id and an open
\* socket (the routes build the id from the clock and a random suffix)
addConnection(c, o) ==
  /\ c \notin connections
  /\ \A x \in Orders : c \notin orderConnections[x]
  /\ connections' = connections \cup {c}
  /\ orderConnections' =
       IF o # NoOrder THEN [orderConnections EXCEPT ![o] = @ \cup {c}]
       ELSE orderConnections
  /\ socket' = [socket EXCEPT ![c] = "OPEN"]
  /\ regOrder' = [regOrder EXCEPT ![c] = o]
  /\ inbox' = [inbox EXCEPT ![c] = {}]
  /\ lastOp' = NoOp
  /\ UNCHANGED <<pipelineVars, resultVars>>

\* removeConnection(connectionId, orderId?): the id leaves connections, and
\* the set of orderId when one is given
RemoveFrom(oc, c, o) == IF o # NoOrder THEN [oc EXCEPT ![o] = @ \ {c}] ELSE oc

removeConnection(c, o) ==
  /\ c \in connections \/ \E x \in Orders : c \in orderConnections[x]
  /\ connections' = connections \ {c}
  /\ orderConnections' = RemoveFrom(orderConnections, c, o)
  /\ lastOp' = NoOp
  /\ UNCHANGED <<pipelineVars, socket, regOrder, inbox, resultVars>>

\* the socket of a registered connection stops being OPEN; its 'close' or
\* 'error' handler, removeConnection(connectionId, orderId), runs later
SocketClose(c) ==
  /\ c \in connections
  /\ socket[c] # "CLOSED"
  /\ socket' = [socket EXCEPT ![c] = "CLOSED"]
  /\ lastOp' = NoOp
  /\ UNCHANGED <<pipelineVars, connections, orderConnections, regOrder, inbox,
                 resultVars>>

\* the socket of a registered connection starts throwing from send
SocketBreak(c) ==
  /\ c \in connections
  /\ socket[c] = "OPEN"
  /\ socket' = [socket EXCEPT ![c] = "BROKEN"]
  /\ lastOp' = NoOp
  /\ UNCHANGED <<pipelineVars, connections, orderConnections, regOrder, inbox,
                 resultVars>>

\* sendToOrder's loop over orderConnections.get(orderId): send is called on
\* the ids that have an OPEN socket ...
LoopSends(o) == {c \in orderConnections[o] : c \in connections /\ ReadyOpen(c)}

\* ... and removeConnection(connectionId, orderId) on the ids without a
\* socket or with one that is not OPEN (the else branch) or whose send threw
\* (the catch)
LoopRemovesNone(o) == {}

LoopRemoves(o) ==
  {c \in orderConnections[o] : c \notin connections \/ socket[c] # "OPEN"}

\* broadcastToTestConnections: the filter over connections.entries()
TestConnectionsNone(conns) == {}

TestConnections(conns) == {c \in conns : IsTestId(c) /\ ReadyOpen(c)}

\* ... send is called on each; removeConnection(connectionId) when it throws
BroadcastRemoves(conns) == {c \in TestConnections(conns) : socket[c] = "BROKEN"}

\* a message for order o reaches the sockets on which send did not throw
Deliver(o, sends) ==
  [c \in ConnIds |-> IF c \in sends /\ socket[c] = "OPEN"
                       THEN inbox[c] \cup {o} ELSE inbox[c]]

sendToOrder(o) ==
  LET afterLoop == connections \ LoopRemoves(o)
      bcast == TestConnections(afterLoop)
  IN /\ connections' = afterLoop \ BroadcastRemoves(afterLoop)
     /\ orderConnections' =
          [orderConnections EXCEPT ![o] = @ \ LoopRemoves(o)]
     /\ inbox' = Deliver(o, LoopSends(o) \cup bcast)
     /\ lastOp' = [op |-> "sendToOrder", order |-> o,
                   tried |-> [c \in ConnIds |->
                                (IF c \in LoopSends(o) THEN 1 ELSE 0)
                                + (IF c \in bcast THEN 1 ELSE 0)]]
     /\ UNCHANGED <<pipelineVars, socket, regOrder, resultVars>>

\* broadcastOrderUpdate(update) for an update of order o
broadcastOrderUpdate(o) ==
  LET bcast == TestConnections(connections)
  IN /\ connections' = connections \ BroadcastRemoves(connections)
     /\ inbox' = Deliver(o, bcast)
     /\ lastOp' = [op |-> "broadcastOrderUpdate", order |-> o,
                   tried |-> [c \in ConnIds |-> IF c \in bcast THEN 1 ELSE 0]]
     /\ UNCHANGED <<pipelineVars, orderConnections, socket, regOrder, resultVars>>

\* sendToAll(message): send on every OPEN socket of connections;
\* removeConnection(connectionId), without an order id, for a socket that is
\* not OPEN or whose send throws. The message is not an order's update, so
\* no inbox records it
sendToAll ==
  LET sends == {c \in connections : ReadyOpen(c)}
  IN /\ connections' = {c \in connections : socket[c] = "OPEN"}
     /\ lastOp' = [op |-> "sendToAll", order |-> NoOrder,
                   tried |-> [c \in ConnIds |-> IF c \in sends THEN 1 ELSE 0]]
     /\ UNCHANGED <<pipelineVars, orderConnections, socket, regOrder, inbox,
                    resultVars>>

\* getStats(): connections.size, and the size of every set orderConnections
\* has a key for (a set is created with its first id and its key is deleted
\* with its last, so the keys are the orders with a non-empty set)
getStats ==
  [totalConnections |-> Cardinality(connections),
   orderConnections |->
     [o \in {x \in Orders : orderConnections[x] # {}} |->
        Cardinality(orderConnections[o])]]

\* GET /stream?orderId=: the order must be in the Order Store; the socket is
\* registered for it with addConnection
StreamConnect(c, o) ==
  /\ ~IsTestId(c)
  /\ db[o].status # "none"
  /\ addConnection(c, o)

\* ------------------------------------------------------------ MockDexRouter
\* the prices quoted, in thousandths of the pair's base price: the base price
\* times 0.98 + random * 0.04 (Raydium), times 0.97 + random * 0.05 (Meteora)
RaydiumLow == 980
RaydiumHigh == 1020
MeteoraLow == 970
MeteoraHigh == 1020
\* the fees quoted, in thousandths
RaydiumFee == 3
MeteoraFee == 2

getRaydiumQuote(p) == [dex |-> "raydium", price |-> p, fee |-> RaydiumFee]
getMeteoraQuote(p) == [dex |-> "meteora", price |-> p, fee |-> MeteoraFee]

\* quote.price * (1 - quote.fee), times 1000
EffectivePrice(q) == q.price * (1000 - q.fee)

\* faulty variant of BestQuote: the nominal prices are compared
BestQuoteNominal(rq, mq) == IF rq.price > mq.price THEN rq ELSE mq

BestQuote(rq, mq) ==
  IF EffectivePrice(rq) > EffectivePrice(mq) THEN rq ELSE mq

getBestQuote ==
  /\ \E pr \in RaydiumLow..RaydiumHigh, pm \in MeteoraLow..MeteoraHigh :
       lastQuote' = [raydium |-> getRaydiumQuote(pr),
                     meteora |-> getMeteoraQuote(pm),
                     best |-> BestQuote(getRaydiumQuote(pr), getMeteoraQuote(pm))]
  /\ UNCHANGED <<pipelineVars, fanoutVars, lastSwap, lastBackoff>>

\* a venue call that rejects, and the rejection of getBestQuote
Rejected == [dex |-> "rejected", price |-> 0, fee |-> 0]
QuoteError == [dex |-> "error", price |-> 0, fee |-> 0]

\* await Promise.all([getRaydiumQuote(...), getMeteoraQuote(...)]): rejects as
\* soon as one of the two rejects; else the two effective prices are compared
AwaitBoth(rq, mq) ==
  IF rq = Rejected \/ mq = Rejected THEN QuoteError ELSE BestQuote(rq, mq)

\* getBestQuote when a venue call rejects (the two methods of the mock only
\* sleep and compute; a venue that can fail is one behind the same
\* IDexRouter methods)
getBestQuoteVenueDown ==
  /\ \E rq \in {getRaydiumQuote(p) : p \in RaydiumLow..RaydiumHigh} \cup {Rejected},
        mq \in {getMeteoraQuote(p) : p \in MeteoraLow..MeteoraHigh} \cup {Rejected} :
       /\ rq = Rejected \/ mq = Rejected
       /\ lastQuote' = [raydium |-> rq, meteora |-> mq, best |-> AwaitBoth(rq, mq)]
  /\ UNCHANGED <<pipelineVars, fanoutVars, lastSwap, lastBackoff>>

\* ---------------------------------------------------------- specifications
RunStep(r) ==
  \/ ProcessGet(r)
  \/ UpdateStore(r)
  \/ UpdateCacheEmit(r)
  \/ ExecGet(r)
  \/ ExecSwap(r)
  \/ RemoveActive(r)
  \/ JobCompleted(r)
  \/ JobFailed(r)

\* the route, the queue and the worker
Pipeline ==
  \/ \E o \in Orders : CreateSave(o) \/ CreateCache(o) \/ RouteEnqueue(o)
  \/ \E j \in delayed : Promote(j)
  \/ Start
  \/ \E r \in RunIds : RunStep(r)

Next ==
  \/ Pipeline
  \/ \E o \in JobIds : AddOrder(o)
  \/ pauseQueue
  \/ resumeQueue

Spec == Init /\ [][Next]_vars

\* ... with the route's addOrder allowed to reject
NextEnqueue == Pipeline \/ \E o \in Orders : RouteEnqueueFails(o)

SpecEnqueue == Init /\ [][NextEnqueue]_vars

\* ... with removeActiveOrder allowed to reject
NextFault == Next \/ \E r \in RunIds : EvictFault(r)

SpecFault == Init /\ [][NextFault]_vars

\* ... with clients subscribing to and unsubscribing from an order's updates
NextSub ==
  \/ Pipeline
  \/ \E o \in Orders : subscribeToOrderStatus(o) \/ unsubscribeFromOrderStatus(o)

SpecSub == Init /\ [][NextSub]_vars

\* the subscribers of created orders: clients opening and closing sockets on
\* GET /:orderId/ws while updates are published
NextClients ==
  \/ \E o \in Orders : CreateSave(o) \/ CreateCache(o) \/ emitStatusUpdate(o)
  \/ \E k \in Clients, o \in Orders : OrderSocketOpen(k, o) \/ OrderSocketClose(k, o)

SpecClients == Init /\ [][NextClients]_vars

\* ... with executeOrder also called directly
DirectDone ==
  /\ runs[DirectRun].pc \in {"d_returned", "d_thrown"}
  /\ runs' = [runs EXCEPT ![DirectRun] = IdleRun]
  /\ UNCHANGED <<storeVars, req, subscriber, queueVars, envVars, dupAdd>>

NextDirect ==
  \/ Pipeline
  \/ \E o \in Orders : DirectCall(o)
  \/ DirectDone

SpecDirect == Init /\ [][NextDirect]_vars

\* ... with cache entries expiring, and addOrder called for any id
NextExpire ==
  \/ Pipeline
  \/ \E o \in JobIds : AddOrder(o)
  \/ \E o \in Orders : CacheExpire(o)

SpecExpire == Init /\ [][NextExpire]_vars

\* ... with the Order Store failing reads of processOrder, and addOrder called
\* again
NextRetry ==
  \/ Pipeline
  \/ \E o \in Orders : AddOrder(o)
  \/ \E r \in WorkerRuns : GetFault(r)

SpecRetry == Init /\ [][NextRetry]_vars

\* ... with clients connecting to GET /stream
NextStream ==
  \/ Pipeline
  \/ \E c \in ConnIds, o \in Orders : StreamConnect(c, o)

SpecStream == Init /\ [][NextStream]_vars

\* the WebSocketManager under any sequence of its calls and socket events
NextFanout ==
  \/ \E c \in ConnIds, o \in Orders \cup {NoOrder} :
       addConnection(c, o) \/ removeConnection(c, o)
  \/ \E c \in ConnIds : SocketClose(c) \/ SocketBreak(c)
  \/ \E o \in Orders : sendToOrder(o) \/ broadcastOrderUpdate(o)

SpecFanout == Init /\ [][NextFanout]_vars

\* the WebSocketManager under the calls that change what getStats counts
NextStats ==
  \/ \E c \in ConnIds, o \in Orders \cup {NoOrder} :
       addConnection(c, o) \/ removeConnection(c, o)
  \/ \E c \in ConnIds : SocketClose(c) \/ SocketBreak(c)
  \/ \E o \in Orders : sendToOrder(o)
  \/ sendToAll

SpecStats == Init /\ [][NextStats]_vars

\* the MockDexRouter asked for quotes
NextQuote == getBestQuote

SpecQuote == Init /\ [][NextQuote]_vars

\* executeSwap, in thousandths: the slippage figures of the code times 1000
\* (Math.random() * 0.002 is 0..MaxBase, order.amountIn / 20000 is
\* amountIn \div SizeDivisor, 0.05 is SlippageCeiling)
AmountLimit == 1000
MaxBase == 2
SizeDivisor == 20
SizeCap == 5
MaxVolatility == 1
DefaultTolerance == 10
SlippageCeiling == 50

\* order.amountIn and order.slippageTolerance of the orders swapped; tolerance
\* 0 stands for a tolerance that is 0 or not set (both falsy)
Amounts == {0 - 5, 0, 20, 100, 1000, 1001}
Tolerances == {0, 1, 5, 10, 1000}

Min(a, b) == IF a < b THEN a ELSE b

\* faulty variant of OverLimit: the limit itself is refused
OverLimitInclusive(amountIn) == amountIn >= AmountLimit

\* order.amountIn > 1000
OverLimit(amountIn) == amountIn > AmountLimit

\* the failure result: no txHash, executedPrice 0
SwapFailed(order, why) ==
  [amountIn |-> order.amountIn, tokenIn |-> order.tokenIn,
   tokenOut |-> order.tokenOut, tolerance |-> order.tolerance, slippage |-> 0,
   success |-> FALSE, error |-> why, txHash |-> "undefined",
   executedPrice |-> 0]

\* the result of executeSwap for a quote price and an order, given what
\* Math.random() drew: randomFail for the 5% failure, base and vol for the two
\* random slippage components; executedPrice is quote.price * (1 -
\* actualSlippage), times 1000
SwapResult(price, order, randomFail, base, vol) ==
  LET sizeImpact == Min(order.amountIn \div SizeDivisor, SizeCap)
      actualSlippage == base + sizeImpact + vol
      maxAllowedSlippage ==
        IF order.tolerance = 0 THEN DefaultTolerance ELSE order.tolerance
  IN  IF order.tokenIn = "INVALID_TOKEN" \/ order.tokenOut = "INVALID_TOKEN"
        THEN SwapFailed(order, "Invalid token pair")
      ELSE IF order.amountIn <= 0
        THEN SwapFailed(order, "Invalid amount")
      ELSE IF OverLimit(order.amountIn)
        THEN SwapFailed(order, "Amount too large")
      ELSE IF randomFail
        THEN SwapFailed(order, "random failure")
      ELSE IF actualSlippage > SlippageCeiling
        THEN SwapFailed(order, "Slippage extremely high")
      ELSE [amountIn |-> order.amountIn, tokenIn |-> order.tokenIn,
            tokenOut |-> order.tokenOut, tolerance |-> order.tolerance,
            slippage |-> actualSlippage, success |-> TRUE, error |-> "none",
            txHash |-> "0xhash",
            executedPrice |-> price * (1000 - actualSlippage)]

\* the orders swapped
SwapOrders ==
  [amountIn : Amounts, tokenIn : Tokens, tokenOut : Tokens, tolerance : Tolerances]

executeSwap ==
  /\ \E price \in 1..MaxPrice, order \in SwapOrders, randomFail \in BOOLEAN,
        base \in 0..MaxBase, vol \in 0..MaxVolatility :
       lastSwap' = SwapResult(price, order, randomFail, base, vol)
  /\ UNCHANGED <<pipelineVars, fanoutVars, lastQuote, lastBackoff>>

\* ... with venue calls that may reject
NextVenues == getBestQuote \/ getBestQuoteVenueDown

SpecVenues == Init /\ [][NextVenues]_vars

\* QueueConfig values given to the QueueService constructor, delays in
\* seconds: the shipped one is retryDelay 2, maxRetryDelay 30, maxRetries 3,
\* the tests' one retryDelay 1, maxRetryDelay 5, maxRetries 2
RetryDelays == {1, 2, 3, 4}
MaxRetryDelays == {5, 30}
MaxRetriesValues == {2, 3, 4, 5, 6}

QueueConfigs ==
  [retryDelay : RetryDelays, maxRetryDelay : MaxRetryDelays,
   maxRetries : MaxRetriesValues]

RECURSIVE Pow2(_)
Pow2(n) == IF n = 0 THEN 1 ELSE 2 * Pow2(n - 1)

\* backoff {type: 'exponential', delay: config.retryDelay}: BullMQ delays the
\* job by 2^(attemptsMade - 1) * delay after its attemptsMade-th failure;
\* config.maxRetryDelay is not among the job options
ExponentialBackoff(config, attemptsMade) == Pow2(attemptsMade - 1) * config.retryDelay

\* a job fails for the k-th time with attempts left and is delayed
backoffDelay ==
  /\ \E config \in QueueConfigs, k \in 1..Cardinality(MaxRetriesValues) :
       /\ k < config.maxRetries
       /\ lastBackoff' = [retryDelay |-> config.retryDelay,
                          maxRetryDelay |-> config.maxRetryDelay,
                          attempts |-> config.maxRetries, k |-> k,
                          delay |-> ExponentialBackoff(config, k)]
  /\ UNCHANGED <<pipelineVars, fanoutVars, lastQuote, lastSwap>>

\* the retry delays of a QueueService under any configuration of QueueConfigs
SpecBackoff == Init /\ [][backoffDelay]_vars

\* order creation: the route and createOrder under any request of Requests
NextCreate ==
  \E o \in Orders :
    \/ RouteCreate(o)
    \/ RouteReject(o)
    \/ DirectCreate(o)
    \/ CreateCache(o)
    \/ RouteEnqueue(o)

SpecCreate == Init /\ [][NextCreate]_vars

\* MockDexRouter.executeSwap alone, over the orders of Amounts, Tokens and
\* Tolerances
SpecSwap == Init /\ [][executeSwap]_vars

\* ... with the scheduling the runtime gives: every suspended handler is
\* resumed, an elapsed backoff promotes its job, the worker takes a waiting job
\* whenever the queue is not paused, and a paused queue is resumed
NextFair == Pipeline \/ pauseQueue \/ resumeQueue

Fairness ==
  /\ \A r \in RunIds : WF_vars(RunStep(r))
  /\ WF_vars(\E j \in delayed : Promote(j))
  /\ SF_vars(Start)
  /\ WF_vars(resumeQueue)

FairSpec == Init /\ [][NextFair]_vars /\ Fairness

\* ... and with cache entries expiring
NextFairExpire == NextFair \/ \E o \in Orders : CacheExpire(o)

FairSpecExpire == Init /\ [][NextFairExpire]_vars /\ Fairness

\* ------------------------------------------------------------------ claims

\* C1: the statuses stored for an order never move backwards along
\* pending -> routing -> building -> submitted -> confirmed | failed.
C1_StatusNeverMovesBack ==
  [][\A o \in Orders :
       db[o].status # "none" => Rank(db'[o].status) >= Rank(db[o].status)]_vars

\* C2: once the stored status of an order is confirmed or failed, no step
\* changes it again.
C2_TerminalIsFinal ==
  [][\A o \in Orders :
       IsTerminal(db[o].status) => db'[o].status = db[o].status]_vars

\* C3: executeOrder called on an order that is already confirmed or failed
\* returns normally without any store write, cache write or publish.
C3_ExecuteOnTerminalIsNoop ==
  runs[DirectRun].termAtCall =>
    /\ ~runs[DirectRun].acted
    /\ runs[DirectRun].pc # "d_thrown"

\* C4: failed is stored for an order only by the attempt numbered maxRetries;
\* after an earlier failed attempt the order is still non-terminal.
C4_FailedOnlyOnLastAttempt ==
  \A o \in Orders : failedAtAttempt[o] \in {0, maxRetries}

\* C5: at most one run of the queue handler is in progress for an order id,
\* also when addOrder is called again while its job exists.
C5_OneRunPerOrder == \A o \in JobIds : Cardinality(RunsOf(o)) <= 1

C5_Witness == \E o \in Orders : dupAdd[o] /\ RunsOf(o) # {}

\* C6: every order created and enqueued eventually has status confirmed or
\* failed in the Order Store.
C6_EnqueuedOrderTerminates ==
  \A o \in Orders : (req[o] = "added") ~> IsTerminal(db[o].status)

C6_Witness ==
  /\ \A o \in Orders : req[o] = "added" /\ IsTerminal(db[o].status)
  /\ \E o \in Orders : db[o].status = "confirmed"

\* C7: a stored order has txHash and executedPrice exactly when it is
\* confirmed, and failureReason exactly when it is failed.
C7_FieldsMatchStatus ==
  \A o \in Orders :
    db[o].status # "none" =>
      /\ db[o].txHash # "NULL" <=> db[o].status = "confirmed"
      /\ db[o].executedPrice > 0 <=> db[o].status = "confirmed"
      /\ db[o].failureReason # "NULL" <=> db[o].status = "failed"

\* C8: a subscriber of an order gets at most one update per status
\* transition of that order.
C8_OneUpdatePerTransition == \A o \in Orders : sinceTransition[o] <= 1

\* C9: a run of processOrder that finds its order confirmed or failed returns
\* without a store write, a cache write or a publish.
C9_TerminalOrderIsSkipped ==
  \A r \in WorkerRuns :
    runs[r].sawTerminal => runs[r].pc = "p_return" /\ ~runs[r].acted

C9_Witness == \E r \in WorkerRuns : runs[r].sawTerminal

\* C10: the number of jobs being processed never exceeds concurrency.
C10_ConcurrencyLimit == Cardinality(ActiveRuns) <= Concurrency

C10_Witness ==
  /\ Cardinality(ActiveRuns) = Concurrency
  /\ waiting # <<>>
  /\ ~paused

\* C11: the retryCount stored for an order never decreases and equals the
\* number of attempts the queue has made for it: the attempts made so far
\* while its job awaits a retry, maxRetries once the job has failed for good.
C11_RetryCountTracksAttempts ==
  /\ \A o \in Orders : \A j \in delayed :
       j.id = o => db[o].retryCount = j.attemptsMade
  /\ \A o \in Orders : o \in failedJobs => db[o].retryCount = maxRetries

\* C12: a job is attempted at most maxRetries times; once the attempt
\* numbered maxRetries has failed the order is failed in the Order Store,
\* absent from the Active-Order Cache, and its job is never run or queued
\* again.
C12_RetriesAreBounded ==
  /\ \A r \in WorkerRuns : Busy(r) => runs[r].attemptsMade < maxRetries
  /\ \A j \in delayed : j.attemptsMade < maxRetries
  /\ \A i \in 1..Len(waiting) : waiting[i].attemptsMade < maxRetries
  /\ \A o \in Orders :
       o \in failedJobs =>
         /\ db[o].status = "failed"
         /\ cache[o] = "absent"
         /\ RunsOf(o) = {}
         /\ o \notin SeqIds(waiting)
         /\ \A j \in delayed : j.id # o

C12_Witness ==
  \E o \in Orders : o \in failedJobs /\ dupAdd[o] /\ adds = MaxAdds

\* C13: a job whose order id was not found (no cache entry when executeOrder
\* ran, no row when processOrder ran) fails for good: the queue holds no
\* retry of a job that failed with 'not found'.
C13_NotFoundIsNotRetried ==
  /\ \A j \in delayed : j.failedReason # "notfound"
  /\ \A i \in 1..Len(waiting) : waiting[i].failedReason # "notfound"

C15_UpdatesReachConnections ==
  [][\A r \in RunIds :
       (runs[r].pc \in UpdLabels /\ runs[r].upd /\ ~runs'[r].upd) =>
         \A c \in orderConnections[runs[r].order] :
           (c \in connections /\ socket[c] = "OPEN") =>
             /\ lastOp'.op = "sendToOrder"
             /\ lastOp'.order = runs[r].order
             /\ lastOp'.tried[c] >= 1]_vars

\* C16: a connection registered for an order never gets a message that
\* sendToOrder produced for another order.
C16_NoCrossOrderDelivery ==
  \A c \in ConnIds : regOrder[c] # NoOrder => inbox[c] \subseteq {regOrder[c]}

\* C17: an open connection added without an order id under a test id gets
\* every update passed to sendToOrder or broadcastOrderUpdate.
C17_WildcardGetsEveryUpdate ==
  lastOp.op \in {"sendToOrder", "broadcastOrderUpdate"} =>
    \A c \in connections :
      (IsTestId(c) /\ regOrder[c] = NoOrder /\ socket[c] = "OPEN") =>
        /\ lastOp.tried[c] >= 1
        /\ lastOp.order \in inbox[c]

C17_Witness ==
  /\ lastOp.op = "sendToOrder"
  /\ \E c \in connections :
       /\ IsTestId(c) /\ regOrder[c] = NoOrder /\ socket[c] = "OPEN"
       /\ inbox[c] = Orders
  /\ \E c \in connections : ~IsTestId(c) /\ lastOp.tried[c] = 1

\* C18: one sendToOrder call sends exactly one message to each open
\* connection registered for the order.
C18_ExactlyOnePerCall ==
  lastOp.op = "sendToOrder" =>
    \A c \in orderConnections[lastOp.order] :
      (c \in connections /\ socket[c] = "OPEN") => lastOp.tried[c] = 1

\* C19: sendToOrder removes from the registry every connection registered
\* for the order that is not OPEN or whose send throws, calling send on it
\* at most once, and sends the update to every other connection registered
\* for the order.
C19_StaleRemovedOthersServed ==
  [][lastOp'.op = "sendToOrder" =>
       \A c \in orderConnections[lastOp'.order] :
         IF c \in connections /\ socket[c] = "OPEN"
           THEN /\ lastOp'.tried[c] >= 1
                /\ lastOp'.order \in inbox'[c]
                /\ c \in connections'
           ELSE /\ c \notin connections'
                /\ c \notin orderConnections'[lastOp'.order]
                /\ lastOp'.tried[c] <= 1
                /\ inbox'[c] = inbox[c]]_vars

C19_Witness ==
  /\ lastOp.op = "sendToOrder"
  /\ \E c, d, e \in ConnIds :
       /\ regOrder[c] = lastOp.order /\ socket[c] = "BROKEN"
       /\ lastOp.tried[c] = 1 /\ c \notin connections
       /\ regOrder[d] = lastOp.order /\ socket[d] = "CLOSED"
       /\ lastOp.tried[d] = 0 /\ d \notin connections
       /\ e \in orderConnections[lastOp.order] /\ socket[e] = "OPEN"
       /\ lastOp.tried[e] = 1

\* C20: getBestQuote returns the quote with the highest fee-adjusted price,
\* price * (1 - fee), of the two venues, whichever has the higher nominal
\* price.
C20_BestEffectivePriceWins ==
  lastQuote.best.dex # "none" =>
    /\ lastQuote.best \in {lastQuote.raydium, lastQuote.meteora}
    /\ \A q \in {lastQuote.raydium, lastQuote.meteora} :
         lastQuote.best.price * (1000 - lastQuote.best.fee)
           >= q.price * (1000 - q.fee)

C20_Witness ==
  /\ lastQuote.best = lastQuote.meteora
  /\ lastQuote.raydium.price > lastQuote.meteora.price

\* C21: when the two venues' effective prices are equal, getBestQuote
\* returns the quote of the first venue, raydium.
C21_TieGoesToFirstVenue ==
  ( /\ lastQuote.raydium.dex = "raydium"
    /\ lastQuote.meteora.dex = "meteora"
    /\ lastQuote.raydium.price * (1000 - lastQuote.raydium.fee)
         = lastQuote.meteora.price * (1000 - lastQuote.meteora.fee) )
  => lastQuote.best = lastQuote.raydium

C23_SuccessWithinTolerance ==
  lastSwap.success =>
    /\ lastSwap.slippage
         <= (IF lastSwap.tolerance = 0 THEN DefaultTolerance ELSE lastSwap.tolerance)
    /\ lastSwap.slippage <= SlippageCeiling

\* C24: for a valid request createOrder returns an order with status pending,
\* retryCount 0, an id no other created order has, and slippageTolerance 0.01
\* when the request omits it; the order is then what getOrderStatus reads from
\* the Order Store, and it is in the Active-Order Cache.
C24_CreatedOrderIsPending ==
  \A o \in Orders :
    (req[o] = "created" /\ ValidRequest(returned[o].request)) =>
      /\ returned[o].order.status = "pending"
      /\ returned[o].order.retryCount = 0
      /\ \A p \in Orders \ {o} :
           req[p] \in {"created", "added"} => returned[p].order.id # returned[o].order.id
      /\ returned[o].request.slippageTolerance = <<>>
           => returned[o].order.slippageTolerance = DefaultSlippage
      /\ db[o].status = "pending"
      /\ db[o].retryCount = 0
      /\ db[o].tokenIn = returned[o].order.tokenIn
      /\ cache[o] = "pending"

\* C24 witness: createOrder has returned an order for a valid request that
\* omitted slippageTolerance, after another order was created.
C24_Witness ==
  \E o \in Orders, p \in Orders :
    /\ o # p
    /\ req[p] \in {"created", "added"}
    /\ req[o] = "created"
    /\ ValidRequest(returned[o].request)
    /\ returned[o].request.slippageTolerance = <<>>

\* C25: a creation request with a non-positive amountIn, an unrecognized
\* type, a missing field or a slippageTolerance outside [0,1] is rejected, and
\* no order is written to the Order Store, put in the cache or enqueued for it.
C25_InvalidRequestCreatesNothing ==
  \A o \in Orders :
    (req[o] # "new" /\ ~ValidRequest(returned[o].request)) =>
      /\ req[o] = "rejected"
      /\ db[o].status = "none"
      /\ cache[o] = "absent"
      /\ ~JobExists(o)

\* C26: once an order's stored status is confirmed or failed, its entry is
\* removed from the Active-Order Cache and never put there again, and its
\* record stays in the Order Store.
C26_TerminalLeavesCacheForGood ==
  \A o \in Orders :
    IsTerminal(db[o].status) ~> [](cache[o] = "absent" /\ db[o].status # "none")

\* C26 witness: an enqueued order has reached a terminal status and its cache
\* entry has been removed.
C26_Witness ==
  \E o \in Orders :
    /\ req[o] = "added"
    /\ IsTerminal(db[o].status)
    /\ cache[o] = "absent"

\* C27: for every status transition the effects come in the order Order Store
\* write, Active-Order Cache write or eviction, publish: when updateOrderStatus
\* publishes a status, that status is the stored one and the cache effect of
\* the transition is done (the entry evicted for confirmed and failed, the
\* entry, if any, rewritten for the other statuses).
C27_StoreThenCacheThenPublish ==
  [][\A r \in RunIds :
       (runs[r].pc \in UpdLabels /\ runs[r].upd /\ ~runs'[r].upd
          /\ runs[r].order \in Orders) =>
         /\ db'[runs[r].order].status = UpdStatus(runs[r].pc)
         /\ IF IsTerminal(UpdStatus(runs[r].pc))
              THEN cache'[runs[r].order] = "absent"
              ELSE cache'[runs[r].order] \in {UpdStatus(runs[r].pc), "absent"}]_vars

\* C30: getActiveOrders, which returns every entry of the Active-Order
\* Cache, never returns an order whose status is confirmed or failed.
C30_ActiveOrdersAreNotTerminal ==
  \A o \in Orders : ~IsTerminal(getAllActiveOrders[o])

\* C28: after pauseQueue no waiting job is started until resumeQueue; the
\* jobs enqueued before or during the pause all stay in the queue, and every
\* waiting job is started once the queue has been resumed.
C28_PauseHoldsWork ==
  /\ [][paused =>
          /\ \A r \in RunIds : ~Busy(r) => runs'[r].pc = "idle"
          /\ Len(waiting') >= Len(waiting)
          /\ \A i \in 1..Len(waiting) : waiting'[i] = waiting[i]]_vars
  /\ \A o \in Orders :
       (o \in SeqIds(waiting)) ~> (\E r \in RunIds : Busy(r) /\ runs[r].order = o)

\* C28 witness: the queue is paused with two jobs waiting, one of them
\* enqueued before the pause, and no job running.
C28_Witness ==
  /\ paused
  /\ Len(waiting) = NumOrders
  /\ \A r \in RunIds : ~Busy(r)

\* C29: the delay before the k-th re-attempt of a failed job is
\* retryDelay * 2^(k-1), and it never exceeds maxRetryDelay.
C29_BackoffDoublesUnderCeiling ==
  lastBackoff.k > 0 =>
    /\ lastBackoff.delay = lastBackoff.retryDelay * Pow2(lastBackoff.k - 1)
    /\ lastBackoff.delay <= lastBackoff.maxRetryDelay

\* C31: after any sequence of WebSocketManager calls and socket events,
\* getStats().totalConnections is the number of registered connections, the
\* count of every order is the number of registered connections subscribed
\* to it, and an order with no such connection is not listed.
C31_StatsMatchConnections ==
  /\ getStats.totalConnections = Cardinality(connections)
  /\ \A o \in Orders :
       LET subscribed == {c \in connections : regOrder[c] = o}
       IN IF o \in DOMAIN getStats.orderConnections
            THEN /\ subscribed # {}
                 /\ getStats.orderConnections[o] = Cardinality(subscribed)
            ELSE subscribed = {}

\* C32: an attempt that failed inside executeOrder (unsuccessful swap, order
\* not found) ends with the error thrown out of executeOrder and out of
\* processOrder: the attempt does end, and when it ends the queue has the job
\* either delayed for a retry with attemptsMade advanced by one or in its
\* failed set.
C32_FailureReachesTheQueue ==
  /\ [][\A r \in WorkerRuns :
          (runs[r].err # "none" /\ runs'[r].pc = "idle") =>
            \/ \E j \in delayed' :
                 /\ j.id = runs[r].order
                 /\ j.attemptsMade = runs[r].attemptsMade + 1
                 /\ j.failedReason = runs[r].err
            \/ runs[r].order \in failedJobs']_vars
  /\ \A r \in WorkerRuns : (runs[r].err # "none") ~> (runs[r].pc = "idle")

\* C32 witness: a job is delayed for its retry after executeOrder did not
\* find its order, which the Order Store has, in the cache.
C32_Witness ==
  \E j \in delayed :
    /\ j.failedReason = "notfound"
    /\ j.attemptsMade > 0
    /\ db[j.id].status # "none"

\* C33: executeSwap fails, with no txHash and executedPrice 0, with 'Invalid
\* token pair' when tokenIn or tokenOut is INVALID_TOKEN, otherwise when
\* amountIn <= 0, otherwise when amountIn > 1000; an amountIn of exactly 1000
\* is not refused as too large.
C33_SwapChecksBeforeSettling ==
  lastSwap.tokenIn # "none" =>
    /\ (~lastSwap.success) => (lastSwap.txHash = "undefined" /\ lastSwap.executedPrice = 0)
    /\ IF lastSwap.tokenIn = "INVALID_TOKEN" \/ lastSwap.tokenOut = "INVALID_TOKEN"
         THEN ~lastSwap.success /\ lastSwap.error = "Invalid token pair"
       ELSE IF lastSwap.amountIn <= 0
         THEN ~lastSwap.success /\ lastSwap.error = "Invalid amount"
       ELSE IF lastSwap.amountIn > AmountLimit
         THEN ~lastSwap.success /\ lastSwap.error = "Amount too large"
       ELSE lastSwap.error \notin {"Invalid token pair", "Invalid amount",
                                   "Amount too large"}

\* C33 witness: a swap of exactly 1000 has succeeded.
C33_Witness ==
  /\ lastSwap.amountIn = AmountLimit
  /\ lastSwap.success
  /\ lastSwap.executedPrice > 0

\* C34: a callback registered for an order keeps receiving the order's
\* updates until its own client unsubscribes, whatever other clients do for
\* the same order: every update published reaches every client whose socket
\* for the order is subscribed and has not closed.
C34_SubscriberKeepsReceiving ==
  lastEmit.order # NoOrder => \A k \in lastEmit.open : lastEmit.to = k

\* C35: whenever the queue reports a job as completed, the handler having
\* returned, the order's status in the Order Store is confirmed: an order that
\* ended failed is never a completed job.
C35_CompletedMeansConfirmed ==
  [][\A r \in WorkerRuns :
       (runs[r].pc = "p_return" /\ runs'[r].pc = "idle") =>
         db[runs[r].order].status = "confirmed"]_vars

\* C36: every order the POST /execute route has stored as pending has a job
\* in the queue or a run in progress once the route is done with it: no order
\* is left pending, in the store and in the cache, with nothing to process it
\* because addOrder failed.
C36_PendingOrderHasWork ==
  \A o \in Orders :
    (req[o] \in {"added", "add_failed"} /\ db[o].status = "pending") =>
      (JobExists(o) \/ RunsOf(o) # {})

\* C37: createOrder keeps the slippageTolerance the caller gave for every
\* value in [0,1], 0 included: the order's tolerance differs from the
\* request's only when the request omits it.
C37_GivenSlippageIsKept ==
  \A o \in Orders :
    (req[o] \in {"saved", "created", "added"}
       /\ returned[o].request.slippageTolerance # <<>>) =>
      IF /\ returned[o].request.slippageTolerance[1] >= 0
         /\ returned[o].request.slippageTolerance[1] <= MaxSlippage
        THEN returned[o].order.slippageTolerance
               = returned[o].request.slippageTolerance[1]
        ELSE TRUE

====
